---- MODULE Spec2Model ----
(***************************************************************************)
(* Appointment scheduling engine of the psychiatry practice manager:       *)
(* AppointmentModel (backend/src/models/Appointment.ts), the appointment   *)
(* routes (backend/src/index.ts) and the appointments table with its       *)
(* CHECK and EXCLUDE constraints (initial schema migration).               *)
(*                                                                         *)
(* Times of day are minutes since midnight once they are in a TIME column  *)
(* and <<hours, minutes>> pairs while they are 'HH:mm' strings.  Dates are *)
(* day numbers; an instant is day * 1440 + minute of the day.              *)
(***************************************************************************)
EXTENDS Integers, Sequences, FiniteSets, TLC

\* ---------------------------------------------------------------- bounds
MaxAppts == 2
MaxOps == 2

\* ------------------------------------------------------- model parameters
Workers == {1, 2}
ActivePatients == {"p1", "p2"}
InactivePatients == {"p3"}
Clinicians == {"c1", "c2"}
Today == 2
DayMinutes == 24 * 60

Statuses == {"scheduled", "confirmed", "in_progress", "completed", "cancelled", "no_show"}
InactiveStatuses == {"cancelled", "no_show"}

\* JavaScript falsy values standing for a field the request does not carry
NoDate == 0
NoTime == <<>>
NoDuration == 0
NoStatus == ""

\* --------------------------------------------------------- time arithmetic
\* parseTime: 'HH:mm' (or 'HH:MM:SS' read back from a TIME column) -> Date of
\* the current day; only the minute of the day matters to the comparisons
ParseTime(t) == t[1] * 60 + t[2]

\* format(addMinutes(parseTime(t), n), 'HH:mm'): the Date may roll over to the
\* next day, the format keeps the time of day only
EndTimeOf(t, n) ==
  LET m == ParseTime(t) + n
  IN  <<(m \div 60) % 24, m % 60>>

\* cast of an 'HH:mm' parameter to the TIME type
TimeIn(t) == t[1] * 60 + t[2]

\* a TIME column as node-postgres returns it, read by split(':').map(Number)
TimeOut(m) == <<m \div 60, m % 60>>

\* parseISO(appointment_date) of a date-only string: local midnight of that day
ParseISO(d) == d * DayMinutes

\* --------------------------------------------------------------- SQL layer
\* the time clause with a closed bound in its first test (end_time >= $3)
SqlTimeClauseClosed(s, e, a, b) ==
  \/ (s <= a /\ e >= a)
  \/ (s < b /\ e >= b)
  \/ (s >= a /\ e <= b)

\* the time clause without its third test (row inside the candidate)
SqlTimeClauseNoInside(s, e, a, b) ==
  \/ (s <= a /\ e > a)
  \/ (s < b /\ e >= b)

\* the WHERE clause on the time columns shared by the three conflict queries:
\* s, e are a row's start_time and end_time, a and b the parameters
SqlTimeClause(s, e, a, b) ==
  \/ (s <= a /\ e > a)
  \/ (s < b /\ e >= b)
  \/ (s >= a /\ e <= b)

\* patientConflictQuery: ids of the rows it selects
PatientConflictRows(store, p, d, a, b) ==
  {i \in DOMAIN store :
     /\ store[i].patient_id = p
     /\ store[i].appointment_date = d
     /\ store[i].status \notin InactiveStatuses
     /\ SqlTimeClause(store[i].start_time, store[i].end_time, TimeIn(a), TimeIn(b))}

\* the query with "status != 'cancelled'" for its status test
PsychiatristConflictRowsButCancelled(store, c, d, a, b) ==
  {i \in DOMAIN store :
     /\ store[i].psychiatrist_id = c
     /\ store[i].appointment_date = d
     /\ store[i].status # "cancelled"
     /\ SqlTimeClause(store[i].start_time, store[i].end_time, TimeIn(a), TimeIn(b))}

\* psychiatristConflictQuery: ids of the rows it selects
PsychiatristConflictRows(store, c, d, a, b) ==
  {i \in DOMAIN store :
     /\ store[i].psychiatrist_id = c
     /\ store[i].appointment_date = d
     /\ store[i].status \notin InactiveStatuses
     /\ SqlTimeClause(store[i].start_time, store[i].end_time, TimeIn(a), TimeIn(b))}

\* the conflict query of update() without its "id != $1"
UpdateConflictRowsWithSelf(store, id, c, d, a, b) ==
  PsychiatristConflictRows(store, c, d, a, b)

\* conflictQuery of update: the same scan without the row being updated
UpdateConflictRows(store, id, c, d, a, b) ==
  PsychiatristConflictRows(store, c, d, a, b) \ {id}

\* CHECK (duration_minutes >= 15 AND duration_minutes <= 480)
DurationCheck(r) == r.duration_minutes >= 15 /\ r.duration_minutes <= 480

\* a WHERE clause that keeps only the scheduled rows in the index
InExclusionIndexScheduledOnly(r) == r.status = "scheduled"

\* WHERE (status NOT IN ('cancelled', 'no_show')) of both EXCLUDE constraints
InExclusionIndex(r) == r.status \notin InactiveStatuses

\* tstzrange(lower, upper) raises an error when lower > upper
RangeError(r) == r.start_time > r.end_time

\* tstzrange && tstzrange on the same date: '[)' bounds, empty ranges overlap
\* nothing
RangesOverlap(r1, r2) ==
  /\ r1.start_time < r1.end_time
  /\ r2.start_time < r2.end_time
  /\ r1.start_time < r2.end_time
  /\ r2.start_time < r1.end_time

\* the patient constraint as a uniqueness of (patient, date, start_time)
PatientSlotUniqueOnly(store, id, r) ==
  /\ InExclusionIndex(r)
  /\ \E j \in DOMAIN store \ {id} :
       /\ InExclusionIndex(store[j])
       /\ store[j].patient_id = r.patient_id
       /\ store[j].appointment_date = r.appointment_date
       /\ store[j].start_time = r.start_time

\* CONSTRAINT unique_patient_time_slot, for row r stored under id
PatientExclusionViolated(store, id, r) ==
  /\ InExclusionIndex(r)
  /\ \E j \in DOMAIN store \ {id} :
       /\ InExclusionIndex(store[j])
       /\ store[j].patient_id = r.patient_id
       /\ store[j].appointment_date = r.appointment_date
       /\ RangesOverlap(store[j], r)

\* the psychiatrist constraint as a uniqueness of (psychiatrist, date, start_time)
PsychiatristSlotUniqueOnly(store, id, r) ==
  /\ InExclusionIndex(r)
  /\ \E j \in DOMAIN store \ {id} :
       /\ InExclusionIndex(store[j])
       /\ store[j].psychiatrist_id = r.psychiatrist_id
       /\ store[j].appointment_date = r.appointment_date
       /\ store[j].start_time = r.start_time

\* CONSTRAINT unique_psychiatrist_time_slot, for row r stored under id
PsychiatristExclusionViolated(store, id, r) ==
  /\ InExclusionIndex(r)
  /\ \E j \in DOMAIN store \ {id} :
       /\ InExclusionIndex(store[j])
       /\ store[j].psychiatrist_id = r.psychiatrist_id
       /\ store[j].appointment_date = r.appointment_date
       /\ RangesOverlap(store[j], r)

\* the error with which the table rejects an INSERT or UPDATE producing row r
\* under id, "none" when it accepts the row: the CHECK constraints come before
\* the index entries, and an index entry is computed before it is compared
StoreError(store, id, r) ==
  IF ~DurationCheck(r) THEN "CheckViolation"
  ELSE IF InExclusionIndex(r) /\ RangeError(r) THEN "RangeBoundError"
  ELSE IF PatientExclusionViolated(store, id, r) THEN "PatientExclusion"
  ELSE IF PsychiatristExclusionViolated(store, id, r) THEN "PsychiatristExclusion"
  ELSE "none"

StoreErrors == {"CheckViolation", "RangeBoundError", "PatientExclusion",
                "PsychiatristExclusion"}

\* a statement whose error does not undo what it wrote
StatementKeepsWrite(store, err, written) == written

\* the table after one INSERT or UPDATE statement: as written when the
\* statement raises no error, as it was before when it raises one
StatementResult(store, err, written) ==
  IF err # "none" THEN store ELSE written

\* ------------------------------------------------------------------- state
VARIABLES
  appts,      \* the appointments table: id -> row
  nextId,     \* ids handed out so far + 1 (uuidv4 never repeats)
  now,        \* the current instant
  pc,         \* per request handler: the statement it is about to run
  req,        \* per request handler: the request being served
  loc,        \* per request handler: values computed from earlier reads
  res,        \* per request handler: outcome of the request
  ops,        \* requests started so far
  probe       \* a single call made on its own: its arguments and its result

vars == <<appts, nextId, now, pc, req, loc, res, ops, probe>>

NoReq ==
  [op |-> "none", id |-> 0, patient_id |-> "", psychiatrist_id |-> "",
   appointment_date |-> NoDate, start_time |-> NoTime,
   duration_minutes |-> NoDuration, status |-> NoStatus]

NoLoc == [date |-> NoDate, start |-> NoTime, end |-> NoTime, temporal |-> FALSE]

NoRes == [op |-> "none", kind |-> "none", id |-> 0]

NoProbe == [call |-> "none"]

\* a booking made earlier: the table starts empty or with this row in it
SeedRow ==
  [patient_id |-> "p1", psychiatrist_id |-> "c1", appointment_date |-> Today + 1,
   start_time |-> 10 * 60, end_time |-> 16 * 60, duration_minutes |-> 360,
   status |-> "scheduled"]

Init ==
  /\ appts \in {<<>>, <<SeedRow>>}
  /\ nextId = Len(appts) + 1
  /\ now = Today * DayMinutes + 10 * 60
  /\ pc = [w \in Workers |-> "idle"]
  /\ req = [w \in Workers |-> NoReq]
  /\ loc = [w \in Workers |-> NoLoc]
  /\ res = [w \in Workers |-> NoRes]
  /\ ops = 0
  /\ probe = NoProbe

\* ---------------------------------------------- validateAppointmentData
WorkStartTime == <<8, 0>>
WorkEndTime == <<20, 0>>
MinDuration == 15
MaxDuration == 480
MinAdvanceMinutes == 1 * 60

\* 1. isBefore(parseISO(appointment_date), new Date())
IsPastDate(nowv, d) == ParseISO(d) < nowv

\* 2. isBefore(startTime, workStart) || isAfter(startTime, workEnd)
OutsideWorkHours(s) ==
  \/ ParseTime(s) < ParseTime(WorkStartTime)
  \/ ParseTime(s) > ParseTime(WorkEndTime)

\* 3. and 4. duration_minutes < 15, duration_minutes > 480
BadDuration(dur) == dur < MinDuration \/ dur > MaxDuration

\* 8. hoursDiff < 1, hoursDiff being (parseISO(appointment_date) - now) in hours
TooLate(nowv, d) == ParseISO(d) - nowv < MinAdvanceMinutes

\* checks 1 to 6 with the working hours tested before the date
ValidateHoursFirst(store, nowv, p, d, s, dur) ==
  IF OutsideWorkHours(s) THEN "OutsideWorkingHours"
  ELSE IF IsPastDate(nowv, d) THEN "PastDate"
  ELSE IF BadDuration(dur) THEN "InvalidDuration"
  ELSE IF p \notin ActivePatients THEN "PatientNotFound"
  ELSE IF PatientConflictRows(store, p, d, s, EndTimeOf(s, dur)) # {}
       THEN "PatientConflict"
  ELSE "ok"

\* checks 1 to 6: everything up to and including the patient conflict query
ValidateUpToPatient(store, nowv, p, d, s, dur) ==
  IF IsPastDate(nowv, d) THEN "PastDate"
  ELSE IF OutsideWorkHours(s) THEN "OutsideWorkingHours"
  ELSE IF BadDuration(dur) THEN "InvalidDuration"
  ELSE IF p \notin ActivePatients THEN "PatientNotFound"
  ELSE IF PatientConflictRows(store, p, d, s, EndTimeOf(s, dur)) # {}
       THEN "PatientConflict"
  ELSE "ok"

\* checks 7 and 8: the psychiatrist conflict query, then the advance notice
ValidateFromPsychiatrist(store, nowv, c, d, s, dur) ==
  IF PsychiatristConflictRows(store, c, d, s, EndTimeOf(s, dur)) # {}
       THEN "ClinicianConflict"
  ELSE IF TooLate(nowv, d) THEN "InsufficientLeadTime"
  ELSE "ok"

\* the whole of validateAppointmentData against one snapshot of the table
ValidateAppointmentData(store, nowv, p, c, d, s, dur) ==
  LET first == ValidateUpToPatient(store, nowv, p, d, s, dur)
  IN  IF first # "ok" THEN first
      ELSE ValidateFromPsychiatrist(store, nowv, c, d, s, dur)

\* the row create() inserts
NewRow(p, c, d, s, dur) ==
  [patient_id |-> p, psychiatrist_id |-> c, appointment_date |-> d,
   start_time |-> TimeIn(s), end_time |-> TimeIn(EndTimeOf(s, dur)),
   duration_minutes |-> dur, status |-> "scheduled"]

\* ------------------------------------------------------- request handlers
\* the handler sends its response: kind is the outcome, id the appointment
Finish(w, op, kind, id) ==
  /\ pc' = [pc EXCEPT ![w] = "idle"]
  /\ req' = [req EXCEPT ![w] = NoReq]
  /\ loc' = [loc EXCEPT ![w] = NoLoc]
  /\ res' = [res EXCEPT ![w] = [op |-> op, kind |-> kind, id |-> id]]

\* the handler goes on to its next statement
Goto(w, label) ==
  /\ pc' = [pc EXCEPT ![w] = label]
  /\ UNCHANGED <<req, loc, res, probe>>

\* a request is dispatched to the first idle handler
CanStart(w) ==
  /\ pc[w] = "idle"
  /\ ops < MaxOps
  /\ \A v \in Workers : pc[v] = "idle" => w <= v

\* the handler takes request r and goes on to label
Accept(w, r, label) ==
  /\ pc' = [pc EXCEPT ![w] = label]
  /\ req' = [req EXCEPT ![w] = r]
  /\ loc' = [loc EXCEPT ![w] = NoLoc]
  /\ res' = [res EXCEPT ![w] = NoRes]

\* the schema with .min(15) alone
JoiRejectsBelowOnly(dur) == dur < 15

\* schemas.appointmentCreate: duration_minutes is an integer from 15 to 480
\* (ids, dates and times of the model are well formed)
JoiRejectsCreate(dur) == dur < 15 \/ dur > 480

\* schemas.appointmentCreate.fork(['patient_id'], optional): date, start time,
\* duration and type stay required; unknown keys such as status are not
\* rejected and stay in req.body
JoiRejectsUpdate(d, s, dur) ==
  \/ d = NoDate
  \/ s = NoTime
  \/ dur = NoDuration
  \/ JoiRejectsCreate(dur)

InFlightCreates == Cardinality({w \in Workers : pc[w] \in {"c_q7", "c_ins"}})

\* POST /appointments up to the patient conflict query of validateAppointmentData
CreateBegin(w, p, c, d, s, dur) ==
  /\ CanStart(w)
  /\ nextId + InFlightCreates <= MaxAppts
  /\ ops' = ops + 1
  /\ LET kind == IF JoiRejectsCreate(dur) THEN "ValidationError"
                 ELSE IF p \notin ActivePatients THEN "PatientNotFound"
                 ELSE ValidateUpToPatient(appts, now, p, d, s, dur)
     IN  IF kind # "ok"
         THEN Finish(w, "create", kind, 0)
         ELSE Accept(w, [op |-> "create", id |-> 0, patient_id |-> p,
                         psychiatrist_id |-> c, appointment_date |-> d,
                         start_time |-> s, duration_minutes |-> dur,
                         status |-> NoStatus], "c_q7")
  /\ UNCHANGED <<appts, nextId, now, probe>>

\* the psychiatrist conflict query and the advance-notice check
CreateCheckPsychiatrist(w) ==
  /\ pc[w] = "c_q7"
  /\ LET r == req[w]
         kind == ValidateFromPsychiatrist(appts, now, r.psychiatrist_id,
                   r.appointment_date, r.start_time, r.duration_minutes)
     IN  IF kind # "ok"
         THEN Finish(w, "create", kind, 0)
         ELSE Goto(w, "c_ins")
  /\ UNCHANGED <<appts, nextId, now, ops, probe>>

\* the INSERT of create()
CreateInsert(w) ==
  /\ pc[w] = "c_ins"
  /\ LET r == req[w]
         row == NewRow(r.patient_id, r.psychiatrist_id, r.appointment_date,
                       r.start_time, r.duration_minutes)
     IN  IF StoreError(appts, nextId, row) # "none"
         THEN /\ Finish(w, "create", StoreError(appts, nextId, row), 0)
              /\ appts' = StatementResult(appts, StoreError(appts, nextId, row),
                                          appts @@ (nextId :> row))
              /\ UNCHANGED nextId
         ELSE /\ appts' = appts @@ (nextId :> row)
              /\ nextId' = nextId + 1
              /\ Finish(w, "create", "ok", nextId)
  /\ UNCHANGED <<now, ops, probe>>

\* a route that compares nothing
OwnerNotCompared(store, id, c) == FALSE

\* existingAppointment.psychiatrist_id !== psychiatristId, in the three routes
\* that take an appointment id
NotOwner(store, id, c) == store[id].psychiatrist_id # c

\* PUT /appointments/:id: the body validation, the route's findById and the
\* ownership check
UpdateBegin(w, id, c, d, s, dur, st) ==
  /\ CanStart(w)
  /\ ops' = ops + 1
  /\ IF JoiRejectsUpdate(d, s, dur) THEN Finish(w, "update", "ValidationError", id)
     ELSE IF id \notin DOMAIN appts THEN Finish(w, "update", "NotFound", id)
     ELSE IF NotOwner(appts, id, c) THEN Finish(w, "update", "Forbidden", id)
     ELSE Accept(w, [op |-> "update", id |-> id, patient_id |-> "",
                     psychiatrist_id |-> c, appointment_date |-> d,
                     start_time |-> s, duration_minutes |-> dur,
                     status |-> st], "u_find")
  /\ UNCHANGED <<appts, nextId, now, probe>>

\* the request carries date, start time or duration (JavaScript truthiness)
IsTemporal(r) ==
  \/ r.appointment_date # NoDate
  \/ r.start_time # NoTime
  \/ r.duration_minutes # NoDuration

\* update(): the SET clause, then findById and the new end_time; when the row
\* is gone update() throws 'Cita no encontrada', which the catch of the route
\* answers as 500 UPDATE_APPOINTMENT_ERROR
UpdateFind(w) ==
  /\ pc[w] = "u_find"
  /\ LET r == req[w]
     IN  IF ~IsTemporal(r) /\ r.status = NoStatus
         THEN Finish(w, "update", "NoValidFields", r.id)
         ELSE IF ~IsTemporal(r)
         THEN Goto(w, "u_write")
         ELSE IF r.id \notin DOMAIN appts
         THEN Finish(w, "update", "UpdateError", r.id)
         ELSE LET a == appts[r.id]
                  newDate == IF r.appointment_date # NoDate
                             THEN r.appointment_date ELSE a.appointment_date
                  newStartTime == IF r.start_time # NoTime
                                  THEN r.start_time ELSE TimeOut(a.start_time)
                  newDuration == IF r.duration_minutes # NoDuration
                                 THEN r.duration_minutes ELSE a.duration_minutes
              IN  /\ loc' = [loc EXCEPT ![w] =
                       [date |-> newDate, start |-> newStartTime,
                        end |-> EndTimeOf(newStartTime, newDuration),
                        temporal |-> TRUE]]
                  /\ pc' = [pc EXCEPT ![w] = "u_conf"]
                  /\ UNCHANGED <<req, res>>
  /\ UNCHANGED <<appts, nextId, now, ops, probe>>

\* update(): conflictQuery
UpdateConflict(w) ==
  /\ pc[w] = "u_conf"
  /\ IF UpdateConflictRows(appts, req[w].id, req[w].psychiatrist_id,
                           loc[w].date, loc[w].start, loc[w].end) # {}
     THEN Finish(w, "update", "ClinicianConflict", req[w].id)
     ELSE Goto(w, "u_write")
  /\ UNCHANGED <<appts, nextId, now, ops, probe>>

\* the row UPDATE ... SET produces from row a for request r, end_time included
\* when the request is temporal
UpdatedRow(a, r, l) ==
  [patient_id |-> a.patient_id,
   psychiatrist_id |-> a.psychiatrist_id,
   appointment_date |-> IF r.appointment_date # NoDate
                        THEN r.appointment_date ELSE a.appointment_date,
   start_time |-> IF r.start_time # NoTime THEN TimeIn(r.start_time) ELSE a.start_time,
   end_time |-> IF l.temporal THEN TimeIn(l.end) ELSE a.end_time,
   duration_minutes |-> IF r.duration_minutes # NoDuration
                        THEN r.duration_minutes ELSE a.duration_minutes,
   status |-> IF r.status # NoStatus THEN r.status ELSE a.status]

\* update(): UPDATE appointments SET ... WHERE id = AND psychiatrist_id =
UpdateWrite(w) ==
  /\ pc[w] = "u_write"
  /\ LET r == req[w]
     IN  IF r.id \notin DOMAIN appts \/ appts[r.id].psychiatrist_id # r.psychiatrist_id
         THEN /\ Finish(w, "update", "NotFound", r.id)
              /\ UNCHANGED appts
         ELSE LET row == UpdatedRow(appts[r.id], r, loc[w])
              IN  IF StoreError(appts, r.id, row) # "none"
                  THEN /\ Finish(w, "update", StoreError(appts, r.id, row), r.id)
                       /\ appts' = StatementResult(appts, StoreError(appts, r.id, row),
                                                   [appts EXCEPT ![r.id] = row])
                  ELSE /\ appts' = [appts EXCEPT ![r.id] = row]
                       /\ Finish(w, "update", "ok", r.id)
  /\ UNCHANGED <<nextId, now, ops, probe>>

\* PUT /appointments/:id/status: status check, findById, ownership check
StatusBegin(w, id, c, st) ==
  /\ CanStart(w)
  /\ ops' = ops + 1
  /\ IF st \notin Statuses THEN Finish(w, "status", "InvalidStatus", id)
     ELSE IF id \notin DOMAIN appts THEN Finish(w, "status", "NotFound", id)
     ELSE IF NotOwner(appts, id, c) THEN Finish(w, "status", "Forbidden", id)
     ELSE Accept(w, [op |-> "status", id |-> id, patient_id |-> "",
                     psychiatrist_id |-> c, appointment_date |-> NoDate,
                     start_time |-> NoTime, duration_minutes |-> NoDuration,
                     status |-> st], "s_write")
  /\ UNCHANGED <<appts, nextId, now, probe>>

\* a SET clause that also closes the interval of the row at its start
StatusRowClosesInterval(a, st) == [a EXCEPT !.status = st, !.end_time = a.start_time]

\* SET status = $1 of updateStatus, applied to row a
StatusRow(a, st) == [a EXCEPT !.status = st]

\* updateStatus(): UPDATE appointments SET status = WHERE id = AND psychiatrist_id =
StatusWrite(w) ==
  /\ pc[w] = "s_write"
  /\ LET r == req[w]
     IN  IF r.id \notin DOMAIN appts \/ appts[r.id].psychiatrist_id # r.psychiatrist_id
         THEN /\ Finish(w, "status", "NotFound", r.id)
              /\ UNCHANGED appts
         ELSE LET row == StatusRow(appts[r.id], r.status)
              IN  IF StoreError(appts, r.id, row) # "none"
                  THEN /\ Finish(w, "status", StoreError(appts, r.id, row), r.id)
                       /\ appts' = StatementResult(appts, StoreError(appts, r.id, row),
                                                   [appts EXCEPT ![r.id] = row])
                  ELSE /\ appts' = [appts EXCEPT ![r.id] = row]
                       /\ Finish(w, "status", "ok", r.id)
  /\ UNCHANGED <<nextId, now, ops, probe>>

\* DELETE /appointments/:id: findById and ownership check
DeleteBegin(w, id, c) ==
  /\ CanStart(w)
  /\ ops' = ops + 1
  /\ IF id \notin DOMAIN appts THEN Finish(w, "delete", "NotFound", id)
     ELSE IF NotOwner(appts, id, c) THEN Finish(w, "delete", "Forbidden", id)
     ELSE Accept(w, [op |-> "delete", id |-> id, patient_id |-> "",
                     psychiatrist_id |-> c, appointment_date |-> NoDate,
                     start_time |-> NoTime, duration_minutes |-> NoDuration,
                     status |-> NoStatus], "d_write")
  /\ UNCHANGED <<appts, nextId, now, probe>>

\* delete(): DELETE FROM appointments WHERE id = AND psychiatrist_id =
DeleteWrite(w) ==
  /\ pc[w] = "d_write"
  /\ LET r == req[w]
     IN  IF r.id \notin DOMAIN appts \/ appts[r.id].psychiatrist_id # r.psychiatrist_id
         THEN /\ Finish(w, "delete", "NotFound", r.id)
              /\ UNCHANGED appts
         ELSE /\ appts' = [i \in DOMAIN appts \ {r.id} |-> appts[i]]
              /\ Finish(w, "delete", "ok", r.id)
  /\ UNCHANGED <<nextId, now, ops, probe>>

\* the clock: late in the evening of the same day
LateEvening == Today * DayMinutes + 23 * 60 + 30

Tick ==
  /\ now < LateEvening
  /\ now' = LateEvening
  /\ UNCHANGED <<appts, nextId, pc, req, loc, res, ops, probe>>

\* ------------------------------------------- inputs of the scheduling runs
Ids == 1..MaxAppts
BookDates == {Today + 1}
BookStarts == {<<10, 0>>, <<16, 0>>}
BookDurations == {360, 480}
MoveDates == {Today + 1, Today + 2}
MoveStarts == {<<10, 0>>, <<16, 0>>}
MoveDurations == {NoDuration, 480}

Next ==
  \/ \E w \in Workers, p \in ActivePatients, c \in Clinicians, d \in BookDates,
        s \in BookStarts, dur \in BookDurations : CreateBegin(w, p, c, d, s, dur)
  \/ \E w \in Workers : CreateCheckPsychiatrist(w)
  \/ \E w \in Workers : CreateInsert(w)
  \/ \E w \in Workers, id \in Ids, c \in Clinicians, d \in MoveDates,
        s \in MoveStarts, dur \in MoveDurations,
        st \in {NoStatus, "cancelled"} : UpdateBegin(w, id, c, d, s, dur, st)
  \/ \E w \in Workers : UpdateFind(w)
  \/ \E w \in Workers : UpdateConflict(w)
  \/ \E w \in Workers : UpdateWrite(w)
  \/ \E w \in Workers, id \in Ids, c \in Clinicians, st \in Statuses :
        StatusBegin(w, id, c, st)
  \/ \E w \in Workers : StatusWrite(w)
  \/ \E w \in Workers, id \in Ids, c \in Clinicians : DeleteBegin(w, id, c)
  \/ \E w \in Workers : DeleteWrite(w)
  \/ Tick

Spec == Init /\ [][Next]_vars

TypeOK ==
  /\ DOMAIN appts \subseteq Ids
  /\ nextId \in 1..(MaxAppts + 1)
  /\ ops \in 0..MaxOps

\* ------------------------------------------- one request run on its own
\* POST /appointments without the patient lookup of the route
CreateOutcomeNoLookup(store, nowv, p, c, d, s, dur) ==
  IF JoiRejectsCreate(dur) THEN "ValidationError"
  ELSE LET v == ValidateAppointmentData(store, nowv, p, c, d, s, dur)
       IN  IF v # "ok" THEN v
           ELSE LET e == StoreError(store, Len(store) + 1, NewRow(p, c, d, s, dur))
                IN  IF e # "none" THEN e ELSE "ok"

\* POST /appointments with no other request in flight: the outcome
CreateOutcome(store, nowv, p, c, d, s, dur) ==
  IF JoiRejectsCreate(dur) THEN "ValidationError"
  ELSE IF p \notin ActivePatients THEN "PatientNotFound"
  ELSE LET v == ValidateAppointmentData(store, nowv, p, c, d, s, dur)
       IN  IF v # "ok" THEN v
           ELSE LET e == StoreError(store, Len(store) + 1, NewRow(p, c, d, s, dur))
                IN  IF e # "none" THEN e ELSE "ok"

\* the message of the Error that ends create() with the given kind, as its
\* sequence of words (accents dropped); a store error carries the text of the
\* database
ErrorMessage(kind) ==
  CASE kind = "PastDate" ->
         <<"No", "se", "pueden", "programar", "citas", "en", "fechas", "pasadas">>
    [] kind = "OutsideWorkingHours" ->
         <<"Las", "citas", "solo", "se", "pueden", "programar", "entre", "las",
           "8:00", "AM", "y", "8:00", "PM">>
    [] kind = "InvalidDuration" ->
         <<"La", "duracion", "minima", "de", "una", "cita", "es", "15", "minutos">>
    [] kind = "PatientConflict" ->
         <<"El", "paciente", "ya", "tiene", "una", "cita", "en", "ese", "horario">>
    [] kind = "ClinicianConflict" ->
         <<"El", "psiquiatra", "ya", "tiene", "una", "cita", "en", "ese", "horario">>
    [] kind = "InsufficientLeadTime" ->
         <<"Las", "citas", "deben", "programarse", "con", "al", "menos", "1",
           "hora", "de", "anticipacion">>
    [] OTHER -> <<"database", "error", kind>>

\* error.message.includes(phrase), on words
Includes(message, phrase) ==
  \E i \in 1..(Len(message) - Len(phrase) + 1) :
    SubSeq(message, i, i + Len(phrase) - 1) = phrase

\* the catch of POST /appointments: the code of the response for a message
CatchCode(message) ==
  IF Includes(message, <<"No", "se", "pueden", "programar", "citas", "en",
                         "fechas", "pasadas">>)
    THEN "PAST_APPOINTMENT_DATE"
  ELSE IF Includes(message, <<"horario", "laboral">>) THEN "INVALID_APPOINTMENT_TIME"
  ELSE IF Includes(message, <<"Conflicto", "de", "horario">>) THEN "APPOINTMENT_CONFLICT"
  ELSE IF Includes(message, <<"anticipacion">>) THEN "INSUFFICIENT_ADVANCE_NOTICE"
  ELSE "CREATE_APPOINTMENT_ERROR"

\* the code POST /appointments answers with for each outcome of the request
CreateCode(kind) ==
  IF kind = "ok" THEN "CREATED"
  ELSE IF kind = "ValidationError" THEN "VALIDATION_ERROR"
  ELSE IF kind = "PatientNotFound" THEN "PATIENT_NOT_FOUND"
  ELSE CatchCode(ErrorMessage(kind))

\* POST /appointments served from start to end
CreateAlone(p, c, d, s, dur) ==
  /\ probe = NoProbe
  /\ LET kind == CreateOutcome(appts, now, p, c, d, s, dur)
     IN  /\ probe' = [call |-> "create", table |-> appts, patient_id |-> p,
                      psychiatrist_id |-> c, appointment_date |-> d,
                      start_time |-> s, duration_minutes |-> dur, kind |-> kind,
                      code |-> CreateCode(kind)]
         /\ IF kind = "ok"
            THEN /\ appts' = appts @@ (nextId :> NewRow(p, c, d, s, dur))
                 /\ nextId' = nextId + 1
            ELSE UNCHANGED <<appts, nextId>>
  /\ UNCHANGED <<now, pc, req, loc, res, ops>>

\* an appointment booked and confirmed earlier, or cancelled since
RuleSeedRow(p, s, dur, st) ==
  [patient_id |-> p, psychiatrist_id |-> "c1", appointment_date |-> Today + 1,
   start_time |-> TimeIn(s), end_time |-> TimeIn(EndTimeOf(s, dur)),
   duration_minutes |-> dur, status |-> st]

RuleSeeds ==
  {<<>>} \cup {<<RuleSeedRow("p1", <<10, 0>>, 60, st)>> : st \in {"confirmed", "cancelled"}}
         \cup {<<RuleSeedRow("p1", <<10, 30>>, 30, "scheduled")>>}

RuleClocks ==
  {Today * DayMinutes + 10 * 60, Today * DayMinutes + 23 * 60 + 30}

RuleDates == {Today - 1, Today, Today + 1}
RuleStarts == {<<7, 30>>, <<9, 30>>, <<10, 0>>, <<10, 30>>, <<11, 0>>,
               <<19, 30>>, <<20, 0>>, <<20, 30>>}
RuleDurations == {10, 15, 30, 60, 90, 480, 500}

InitRules ==
  /\ appts \in RuleSeeds
  /\ nextId = Len(appts) + 1
  /\ now \in RuleClocks
  /\ pc = [w \in Workers |-> "idle"]
  /\ req = [w \in Workers |-> NoReq]
  /\ loc = [w \in Workers |-> NoLoc]
  /\ res = [w \in Workers |-> NoRes]
  /\ ops = 0
  /\ probe = NoProbe

NextRules ==
  \E p \in ActivePatients \cup InactivePatients, c \in Clinicians, d \in RuleDates,
     s \in RuleStarts, dur \in RuleDurations : CreateAlone(p, c, d, s, dur)

SpecRules == InitRules /\ [][NextRules]_vars

\* --------------------------------------------- the conflict test both ways
\* the conflict scan of create with interval x = <<start, end>> stored as an
\* active appointment and interval y the candidate
ConflictTest(x, y) ==
  PsychiatristConflictRows(
    <<RuleSeedRow("p1", x[1], ParseTime(x[2]) - ParseTime(x[1]), "scheduled")>>,
    "c1", Today + 1, y[1], y[2]) # {}

OverlapTimes == {<<9, 30>>, <<10, 0>>, <<10, 30>>, <<11, 0>>, <<11, 30>>}
OverlapIntervals ==
  {x \in OverlapTimes \X OverlapTimes : ParseTime(x[1]) < ParseTime(x[2])}

InitOverlap ==
  /\ appts = <<>>
  /\ nextId = 1
  /\ now = Today * DayMinutes + 10 * 60
  /\ pc = [w \in Workers |-> "idle"]
  /\ req = [w \in Workers |-> NoReq]
  /\ loc = [w \in Workers |-> NoLoc]
  /\ res = [w \in Workers |-> NoRes]
  /\ ops = 0
  /\ probe \in {[call |-> "pair", a |-> x, b |-> y] : x, y \in OverlapIntervals}

\* the conflict scan with a stored and b the candidate, and with b stored and
\* a the candidate
TestBothWays ==
  /\ probe.call = "pair"
  /\ probe' = [call |-> "overlap", a |-> probe.a, b |-> probe.b,
               ab |-> ConflictTest(probe.a, probe.b),
               ba |-> ConflictTest(probe.b, probe.a)]
  /\ UNCHANGED <<appts, nextId, now, pc, req, loc, res, ops>>

NextOverlap == TestBothWays

SpecOverlap == InitOverlap /\ [][NextOverlap]_vars

\* ------------------------------------- requests served one after the other
\* the appointment the requests of these runs are about, in any status
MoveSeedRow(st) ==
  [patient_id |-> "p1", psychiatrist_id |-> "c1", appointment_date |-> Today + 1,
   start_time |-> 10 * 60, end_time |-> 11 * 60, duration_minutes |-> 60,
   status |-> st]

\* a second booking, 12:00 to 13:00 on the same date, of patient p and clinician c
OtherSeedRow(p, c) ==
  [patient_id |-> p, psychiatrist_id |-> c, appointment_date |-> Today + 1,
   start_time |-> 12 * 60, end_time |-> 13 * 60, duration_minutes |-> 60,
   status |-> "scheduled"]

\* the appointment alone, with a booking of its patient with the other
\* clinician, or with a booking of its clinician for another patient
MoveSeeds ==
  {<<MoveSeedRow(st)>> : st \in Statuses}
    \cup {<<MoveSeedRow(st), OtherSeedRow("p1", "c2")>> : st \in Statuses}
    \cup {<<MoveSeedRow(st), OtherSeedRow("p2", "c1")>> : st \in Statuses}

ShiftStarts == {<<7, 0>>, <<10, 30>>, <<12, 30>>}
ShiftDurations == {10, 30, 500}
ShiftStatuses == {NoStatus, "scheduled"}
LateStarts == {<<14, 0>>}

\* no request is being served
AllIdle == \A w \in Workers : pc[w] = "idle"

InitMoves ==
  /\ appts \in MoveSeeds
  /\ nextId = Len(appts) + 1
  /\ now = Today * DayMinutes + 10 * 60
  /\ pc = [w \in Workers |-> "idle"]
  /\ req = [w \in Workers |-> NoReq]
  /\ loc = [w \in Workers |-> NoLoc]
  /\ res = [w \in Workers |-> NoRes]
  /\ ops = 0
  /\ probe = NoProbe

NextMoves ==
  \/ /\ AllIdle
     /\ \E w \in Workers, s \in LateStarts, dur \in ShiftDurations :
          CreateBegin(w, "p2", "c2", Today + 1, s, dur)
  \/ \E w \in Workers : CreateCheckPsychiatrist(w)
  \/ \E w \in Workers : CreateInsert(w)
  \/ /\ AllIdle
     /\ \E w \in Workers, s \in ShiftStarts, dur \in ShiftDurations,
           st \in ShiftStatuses : UpdateBegin(w, 1, "c1", Today + 1, s, dur, st)
  \/ \E w \in Workers : UpdateFind(w)
  \/ \E w \in Workers : UpdateConflict(w)
  \/ \E w \in Workers : UpdateWrite(w)
  \/ /\ AllIdle
     /\ \E w \in Workers, st \in Statuses : StatusBegin(w, 1, "c1", st)
  \/ \E w \in Workers : StatusWrite(w)

SpecMoves == InitMoves /\ [][NextMoves]_vars

\* --------------------------------------------------------- getAvailability
WorkStart == 8 * 60
WorkEnd == 20 * 60
SlotDuration == 30
DefaultSlotMinutes == 60

\* minutesToTime: minutes since midnight to 'HH:MM'
MinutesToTime(minutes) == <<minutes \div 60, minutes % 60>>

\* timeToMinutes: the hours and minutes of a stored time, in minutes
TimeToMinutes(t) == t[1] * 60 + t[2]

\* existingAppointmentsQuery: ids of the rows of the date and the psychiatrist
\* that are not cancelled or no_show
ExistingAppointments(store, d, c) ==
  {i \in DOMAIN store :
     /\ store[i].appointment_date = d
     /\ store[i].psychiatrist_id = c
     /\ store[i].status \notin InactiveStatuses}

\* the slot test with closed bounds: start <= apptEnd && start + duration >= apptStart
SlotHasConflictClosed(store, existing, start, durationMinutes) ==
  \E i \in existing :
    LET apptStart == TimeToMinutes(TimeOut(store[i].start_time))
        apptEnd == TimeToMinutes(TimeOut(store[i].end_time))
    IN  start <= apptEnd /\ (start + durationMinutes) >= apptStart

\* the slot test on the start of the slot alone: apptStart <= start < apptEnd
SlotHasConflictStartOnly(store, existing, start, durationMinutes) ==
  \E i \in existing :
    LET apptStart == TimeToMinutes(TimeOut(store[i].start_time))
        apptEnd == TimeToMinutes(TimeOut(store[i].end_time))
    IN  start < apptEnd /\ start >= apptStart

\* hasConflict: existingAppointments.some(start < apptEnd && start + duration > apptStart)
SlotHasConflict(store, existing, start, durationMinutes) ==
  \E i \in existing :
    LET apptStart == TimeToMinutes(TimeOut(store[i].start_time))
        apptEnd == TimeToMinutes(TimeOut(store[i].end_time))
    IN  start < apptEnd /\ (start + durationMinutes) > apptStart

\* the loop with the bound start < workEnd - durationMinutes
RECURSIVE SlotLoopShort(_, _, _, _)
SlotLoopShort(store, existing, start, durationMinutes) ==
  IF start >= WorkEnd - durationMinutes THEN <<>>
  ELSE (IF SlotHasConflict(store, existing, start, durationMinutes)
        THEN <<>> ELSE <<MinutesToTime(start)>>)
       \o SlotLoopShort(store, existing, start + SlotDuration, durationMinutes)

\* for (start = ...; start <= workEnd - durationMinutes; start += slotDuration)
RECURSIVE SlotLoop(_, _, _, _)
SlotLoop(store, existing, start, durationMinutes) ==
  IF start > WorkEnd - durationMinutes THEN <<>>
  ELSE (IF SlotHasConflict(store, existing, start, durationMinutes)
        THEN <<>> ELSE <<MinutesToTime(start)>>)
       \o SlotLoop(store, existing, start + SlotDuration, durationMinutes)

\* getAvailability(date, psychiatristId, durationMinutes)
GetAvailability(store, d, c, durationMinutes) ==
  SlotLoop(store, ExistingAppointments(store, d, c), WorkStart, durationMinutes)

\* GET /appointments/availability: parseInt(duration) || 60, then getAvailability
AvailabilityAlone(c, d, duration) ==
  /\ probe = NoProbe
  /\ LET durationMinutes == IF duration = NoDuration THEN DefaultSlotMinutes
                            ELSE duration
     IN  probe' = [call |-> "availability", table |-> appts,
                   psychiatrist_id |-> c, appointment_date |-> d,
                   duration_minutes |-> durationMinutes,
                   available_slots |-> GetAvailability(appts, d, c, durationMinutes)]
  /\ UNCHANGED <<appts, nextId, now, pc, req, loc, res, ops>>

\* bookings of the day the slots are asked for: on and off the half-hour
\* grid, at both ends of the working window, active or cancelled
SlotSeedTimes == {<<<<8, 0>>, 60>>, <<<<10, 0>>, 60>>, <<<<10, 15>>, 30>>,
                  <<<<19, 45>>, 30>>}
SlotSeedRows ==
  {[RuleSeedRow("p1", x[1], x[2], st) EXCEPT !.psychiatrist_id = c] :
     x \in SlotSeedTimes, st \in {"confirmed", "cancelled"}, c \in Clinicians}

\* the tables of up to MaxAppts such rows that the constraints of the table allow
SlotSeeds ==
  {t \in UNION {[1..n -> SlotSeedRows] : n \in 0..MaxAppts} :
     \A i \in DOMAIN t : StoreError(t, i, t[i]) = "none"}

SlotDates == {Today + 1, Today + 2}
SlotDurations == {NoDuration, 15, 30, 45, 90, 480, 750}

InitSlots ==
  /\ appts \in SlotSeeds
  /\ nextId = Len(appts) + 1
  /\ now = Today * DayMinutes + 10 * 60
  /\ pc = [w \in Workers |-> "idle"]
  /\ req = [w \in Workers |-> NoReq]
  /\ loc = [w \in Workers |-> NoLoc]
  /\ res = [w \in Workers |-> NoRes]
  /\ ops = 0
  /\ probe = NoProbe

NextSlots ==
  \E c \in Clinicians, d \in SlotDates, duration \in SlotDurations :
    AvailabilityAlone(c, d, duration)

SpecSlots == InitSlots /\ [][NextSlots]_vars

\* ------------------------- a booking or a slot query after status changes
ScopeStarts == {<<9, 30>>, <<10, 30>>, <<11, 0>>}
ScopeDurations == {30, 60}

InitScopes ==
  /\ appts = <<MoveSeedRow("scheduled")>>
  /\ nextId = Len(appts) + 1
  /\ now = Today * DayMinutes + 10 * 60
  /\ pc = [w \in Workers |-> "idle"]
  /\ req = [w \in Workers |-> NoReq]
  /\ loc = [w \in Workers |-> NoLoc]
  /\ res = [w \in Workers |-> NoRes]
  /\ ops = 0
  /\ probe = NoProbe

NextScopes ==
  \/ /\ AllIdle /\ probe = NoProbe
     /\ \E w \in Workers, st \in Statuses : StatusBegin(w, 1, "c1", st)
  \/ \E w \in Workers : StatusWrite(w)
  \/ /\ AllIdle
     /\ \E p \in ActivePatients, c \in Clinicians, s \in ScopeStarts,
           dur \in ScopeDurations : CreateAlone(p, c, Today + 1, s, dur)
  \/ /\ AllIdle
     /\ \E c \in Clinicians, dur \in ScopeDurations :
          AvailabilityAlone(c, Today + 1, dur)

SpecScopes == InitScopes /\ [][NextScopes]_vars

\* ------------------------------------------------------------ properties
\* an appointment that counts for the no-overlap rules
Active(r) == r.status \notin InactiveStatuses

\* half-open intervals [start_time, end_time) of two rows intersect
Overlaps(r1, r2) == r1.start_time < r2.end_time /\ r2.start_time < r1.end_time

\* C1: no two active appointments of the same patient on the same date have
\* overlapping [start_time, end_time), whatever their clinicians and whichever
\* of create and reschedule wrote them.
C1_PatientNoOverlap ==
  \A i, j \in DOMAIN appts :
    (/\ i # j
     /\ Active(appts[i]) /\ Active(appts[j])
     /\ appts[i].patient_id = appts[j].patient_id
     /\ appts[i].appointment_date = appts[j].appointment_date)
    => ~Overlaps(appts[i], appts[j])

\* a reschedule of appointment i was refused because it would have overlapped
\* appointment j of the same patient with another clinician
C1_Witness ==
  \E w \in Workers, i, j \in DOMAIN appts :
    /\ res[w] = [op |-> "update", kind |-> "PatientExclusion", id |-> i]
    /\ i # j
    /\ Active(appts[i]) /\ Active(appts[j])
    /\ appts[i].patient_id = appts[j].patient_id
    /\ appts[i].appointment_date = appts[j].appointment_date
    /\ appts[i].psychiatrist_id # appts[j].psychiatrist_id

\* C2: no two active appointments of the same clinician on the same date have
\* overlapping [start_time, end_time).
C2_ClinicianNoOverlap ==
  \A i, j \in DOMAIN appts :
    (/\ i # j
     /\ Active(appts[i]) /\ Active(appts[j])
     /\ appts[i].psychiatrist_id = appts[j].psychiatrist_id
     /\ appts[i].appointment_date = appts[j].appointment_date)
    => ~Overlaps(appts[i], appts[j])

\* a create that had passed its conflict queries lost the race for the
\* clinician's slot to another request: one booking is stored, one refused
C2_Witness ==
  \E w, v \in Workers, i \in DOMAIN appts :
    /\ w # v
    /\ res[w] = [op |-> "create", kind |-> "PsychiatristExclusion", id |-> 0]
    /\ res[v] = [op |-> "create", kind |-> "ok", id |-> i]
    /\ Active(appts[i])

\* the create of handler w comes to its end in this step while the table holds
\* an active appointment of its clinician on its date that overlaps its
\* interval, and none of its patient that does
CreateEndsOnBusySlot(w) ==
  /\ pc[w] \in {"c_q7", "c_ins"}
  /\ pc'[w] = "idle"
  /\ LET r == req[w]
         a == TimeIn(r.start_time)
         b == TimeIn(EndTimeOf(r.start_time, r.duration_minutes))
     IN  /\ a < b
         /\ \E i \in DOMAIN appts :
              /\ Active(appts[i])
              /\ appts[i].psychiatrist_id = r.psychiatrist_id
              /\ appts[i].appointment_date = r.appointment_date
              /\ appts[i].start_time < b /\ a < appts[i].end_time
         /\ ~\E i \in DOMAIN appts :
              /\ Active(appts[i])
              /\ appts[i].patient_id = r.patient_id
              /\ appts[i].appointment_date = r.appointment_date
              /\ appts[i].start_time < b /\ a < appts[i].end_time

\* C3: of two creates for the same clinician, date and overlapping intervals
\* one succeeds and the other returns ClinicianConflict, however their reads
\* and writes interleave: a create that ends while the slot is taken ends with
\* ClinicianConflict.
C3_LoserGetsClinicianConflict ==
  [][\A w \in Workers : CreateEndsOnBusySlot(w) => res'[w].kind = "ClinicianConflict"]_vars

\* C4: every stored appointment has end_time = start_time + duration_minutes.
C4_EndTimeDerived ==
  \A i \in DOMAIN appts :
    appts[i].end_time = appts[i].start_time + appts[i].duration_minutes

\* C5: no stored appointment crosses midnight: its end_time is later than its
\* start_time on the same day.
C5_NoMidnightCrossing ==
  \A i \in DOMAIN appts : appts[i].end_time > appts[i].start_time

\* the candidate of the request run on its own, on the minute scale
ProbeStart == TimeIn(probe.start_time)
ProbeEnd == ProbeStart + probe.duration_minutes
ProbeInstant == probe.appointment_date * DayMinutes + ProbeStart

\* an active appointment of the candidate's patient, on its date, whose
\* [start_time, end_time) overlaps the candidate's [start, end)
ProbePatientBusy ==
  \E i \in DOMAIN probe.table :
    /\ Active(probe.table[i])
    /\ probe.table[i].patient_id = probe.patient_id
    /\ probe.table[i].appointment_date = probe.appointment_date
    /\ probe.table[i].start_time < ProbeEnd /\ ProbeStart < probe.table[i].end_time

\* the same for the candidate's clinician
ProbeClinicianBusy ==
  \E i \in DOMAIN probe.table :
    /\ Active(probe.table[i])
    /\ probe.table[i].psychiatrist_id = probe.psychiatrist_id
    /\ probe.table[i].appointment_date = probe.appointment_date
    /\ probe.table[i].start_time < ProbeEnd /\ ProbeStart < probe.table[i].end_time

RuleKinds == {"ValidationError", "PatientNotFound", "PastDate",
              "OutsideWorkingHours", "InvalidDuration"}

\* C6: for a candidate [a,b) that ends within its day and an active appointment
\* [s,e) in scope, create reports a conflict exactly when s < b and a < e:
\* PatientConflict for the patient scope, else ClinicianConflict for the
\* clinician scope; a boundary touch is no conflict.
C6_ConflictIffOverlap ==
  (/\ probe.call = "create"
   /\ probe.kind \notin RuleKinds
   /\ ProbeEnd < DayMinutes)
  => /\ (probe.kind = "PatientConflict") <=> ProbePatientBusy
     /\ ~ProbePatientBusy => ((probe.kind = "ClinicianConflict") <=> ProbeClinicianBusy)

\* with a confirmed appointment 10:00-11:00, the request of the same clinician
\* for 11:00, 30 minutes, is booked
C6_Witness ==
  /\ probe.call = "create"
  /\ probe.kind = "ok"
  /\ probe.start_time = <<11, 0>> /\ probe.duration_minutes = 30
  /\ \E i \in DOMAIN probe.table :
       /\ probe.table[i].status = "confirmed"
       /\ probe.table[i].psychiatrist_id = probe.psychiatrist_id
       /\ probe.table[i].appointment_date = probe.appointment_date
       /\ probe.table[i].start_time = 10 * 60 /\ probe.table[i].end_time = 11 * 60

\* the rules as the handler evaluates them, for the candidate run on its own
ProbeBadDuration == JoiRejectsCreate(probe.duration_minutes)
ProbeOutsideHours == OutsideWorkHours(probe.start_time)
ProbePast == IsPastDate(now, probe.appointment_date)
ProbeTooLate == TooLate(now, probe.appointment_date)

C9_WindowBoundsTheEnd ==
  (/\ probe.call = "create"
   /\ probe.patient_id \in ActivePatients
   /\ ~ProbeBadDuration /\ ~ProbePast /\ ~ProbeTooLate
   /\ (ProbeStart < 8 * 60 \/ ProbeEnd > 20 * 60))
  => probe.kind = "OutsideWorkingHours"

\* C10: past date and lead time are judged on the instant date + start_time:
\* a start less than 60 minutes ahead fails with InsufficientLeadTime, a start
\* at least 60 minutes ahead fails with neither rule (the candidate passes
\* duration and working hours and nothing overlaps it).
C10_RulesUseStartInstant ==
  (/\ probe.call = "create"
   /\ probe.patient_id \in ActivePatients
   /\ ~ProbeBadDuration
   /\ ProbeStart >= 8 * 60 /\ ProbeEnd <= 20 * 60
   /\ ~ProbePatientBusy /\ ~ProbeClinicianBusy)
  => /\ (ProbeInstant >= now /\ ProbeInstant - now < 60)
          => probe.kind = "InsufficientLeadTime"
     /\ ProbeInstant - now >= 60
          => probe.kind \notin {"PastDate", "InsufficientLeadTime"}

\* C7: the conflict test gives the same answer with A stored and B the
\* candidate as with B stored and A the candidate.
C7_OverlapSymmetric ==
  probe.call = "overlap" => probe.ab = probe.ba

\* A lies strictly inside B and the test reports the conflict
C7_Witness ==
  /\ probe.call = "overlap"
  /\ ParseTime(probe.b[1]) < ParseTime(probe.a[1])
  /\ ParseTime(probe.a[2]) < ParseTime(probe.b[2])
  /\ probe.ab /\ probe.ba

\* a row of the table starts within the working window 08:00 to 20:00
StartsInWindow(r) == r.start_time >= 8 * 60 /\ r.start_time <= 20 * 60

\* C11: every appointment that is neither cancelled nor no_show starts within
\* the working window 08:00-20:00; a reschedule to a start outside the window
\* is refused and the appointment stays as it was.
C11_ActiveStartsInWindow ==
  \A i \in DOMAIN appts : Active(appts[i]) => StartsInWindow(appts[i])

\* the outcomes by which a duration is refused: by the request schema, by
\* validateAppointmentData, by the CHECK of the table
DurationKinds == {"ValidationError", "InvalidDuration", "CheckViolation"}

\* C12: every stored appointment has duration_minutes from 15 to 480; a create
\* or a reschedule with a duration outside that range fails and stores
\* nothing: it is turned away by the request schema, with the table unchanged.
C12_DurationInRange ==
  [][/\ \A i \in DOMAIN appts' :
          appts'[i].duration_minutes >= 15 /\ appts'[i].duration_minutes <= 480
     /\ \A w \in Workers :
          (res'[w] # res[w] /\ res'[w].kind \in DurationKinds)
             => (res'[w].kind = "ValidationError" /\ appts' = appts)]_vars

\* a reschedule of the appointment was refused for its duration, and so was a
\* create
C12_Witness ==
  /\ 1 \in DOMAIN appts /\ appts[1].duration_minutes = 60
  /\ \E w \in Workers :
       res[w] = [op |-> "update", kind |-> "ValidationError", id |-> 1]

\* the reschedule served by handler w comes to its end in this step
UpdateEnds(w) ==
  /\ pc[w] \in {"u_conf", "u_write"}
  /\ pc'[w] = "idle"
  /\ req[w].id \in DOMAIN appts

\* the interval the reschedule of handler w asks for, on the minute scale
MoveStart(w) == TimeIn(loc[w].start)
MoveEnd(w) == TimeIn(loc[w].end)

\* another active appointment, of the same patient but another clinician,
\* overlaps the interval handler w asks for
MovePatientBusy(w) ==
  \E j \in DOMAIN appts \ {req[w].id} :
    /\ Active(appts[j])
    /\ appts[j].patient_id = appts[req[w].id].patient_id
    /\ appts[j].psychiatrist_id # appts[req[w].id].psychiatrist_id
    /\ appts[j].appointment_date = loc[w].date
    /\ appts[j].start_time < MoveEnd(w) /\ MoveStart(w) < appts[j].end_time

\* another active appointment of the same clinician overlaps it
MoveClinicianBusy(w) ==
  \E j \in DOMAIN appts \ {req[w].id} :
    /\ Active(appts[j])
    /\ appts[j].psychiatrist_id = appts[req[w].id].psychiatrist_id
    /\ appts[j].appointment_date = loc[w].date
    /\ appts[j].start_time < MoveEnd(w) /\ MoveStart(w) < appts[j].end_time

\* the appointment handler w reschedules is in a status that allows it
MoveAllowed(w) == appts[req[w].id].status \in {"scheduled", "confirmed"}

\* C13: a reschedule whose new interval overlaps another active appointment of
\* the same clinician ends with ClinicianConflict, and one whose new interval
\* overlaps another active appointment of the same patient, held with another
\* clinician, ends with PatientConflict.
C13_MoveConflictPerScope ==
  [][\A w \in Workers :
       (UpdateEnds(w) /\ MoveAllowed(w) /\ MoveStart(w) < MoveEnd(w))
       => /\ MoveClinicianBusy(w) => res'[w].kind = "ClinicianConflict"
          /\ (MovePatientBusy(w) /\ ~MoveClinicianBusy(w))
               => res'[w].kind = "PatientConflict"]_vars

\* the new interval of handler w's reschedule overlaps the current interval of
\* the appointment itself, on the same date
MoveWithinOwnSlot(w) ==
  /\ loc[w].date = appts[req[w].id].appointment_date
  /\ appts[req[w].id].start_time < MoveEnd(w)
  /\ MoveStart(w) < appts[req[w].id].end_time

ConflictOutcomes == {"PatientConflict", "ClinicianConflict",
                     "PatientExclusion", "PsychiatristExclusion"}

\* C14: a reschedule to an interval that overlaps the appointment's own
\* current interval, and no other active appointment of its patient or its
\* clinician, never ends with a conflict, neither from the conflict query nor
\* from the exclusion constraints of the table.
C14_NoSelfConflict ==
  [][\A w \in Workers :
       (/\ UpdateEnds(w) /\ MoveStart(w) < MoveEnd(w)
        /\ MoveWithinOwnSlot(w)
        /\ ~MovePatientBusy(w) /\ ~MoveClinicianBusy(w))
       => res'[w].kind \notin ConflictOutcomes]_vars

\* the appointment booked 10:00 to 11:00 was moved to 10:30-11:00, inside its
\* own slot, while active
C14_Witness ==
  /\ 1 \in DOMAIN appts
  /\ Active(appts[1])
  /\ appts[1].start_time = 10 * 60 + 30 /\ appts[1].end_time = 11 * 60
  /\ \E w \in Workers : res[w] = [op |-> "update", kind |-> "ok", id |-> 1]

\* C15: a reschedule of an appointment whose status is in_progress, completed,
\* cancelled or no_show does not succeed and leaves the appointment as it was.
C15_MoveOnlyWhileOpen ==
  [][\A w \in Workers :
       (UpdateEnds(w) /\ ~MoveAllowed(w))
       => (res'[w].kind # "ok" /\ appts' = appts)]_vars

\* the status change served by handler w comes to its end in this step
StatusEnds(w) ==
  /\ pc[w] = "s_write"
  /\ pc'[w] = "idle"
  /\ req[w].id \in DOMAIN appts

\* the transitions of the appointment lifecycle: <<current, requested>>
LifecycleSteps ==
  {<<"scheduled", "confirmed">>, <<"confirmed", "in_progress">>,
   <<"in_progress", "completed">>}
    \cup {<<st, "cancelled">> : st \in {"scheduled", "confirmed", "in_progress"}}
    \cup {<<st, "no_show">> : st \in {"scheduled", "confirmed"}}

\* C16: a status change succeeds only for a transition of the lifecycle; for
\* every other pair of current and requested status, the same status twice
\* included, it does not succeed and the appointment stays as it was.
C16_OnlyLifecycleSteps ==
  [][\A w \in Workers :
       (StatusEnds(w) /\ <<appts[req[w].id].status, req[w].status>> \notin LifecycleSteps)
       => (res'[w].kind # "ok" /\ appts' = appts)]_vars

TerminalStatuses == {"completed", "cancelled", "no_show"}

\* C17: once the status of an appointment is completed, cancelled or no_show,
\* no step changes it for as long as the appointment exists.
C17_TerminalStays ==
  [][\A i \in DOMAIN appts \cap DOMAIN appts' :
       appts[i].status \in TerminalStatuses => appts'[i].status = appts[i].status]_vars

\* the instant at which row r starts
StartInstant(r) == r.appointment_date * DayMinutes + r.start_time

\* C18: a change to no_show asked before the appointment's start instant
\* date + start_time does not succeed and the status stays as it was.
C18_NoShowAfterStart ==
  [][\A w \in Workers :
       (/\ StatusEnds(w)
        /\ req[w].status = "no_show"
        /\ appts[req[w].id].status \in {"scheduled", "confirmed"}
        /\ now < StartInstant(appts[req[w].id]))
       => (res'[w].kind # "ok" /\ appts' = appts)]_vars

\* the starts the slot rule allows for the call on record: on the half-hour
\* grid from 08:00, ending by 20:00, overlapping no active appointment of the
\* clinician on the date
FreeStarts ==
  {m \in 0..(DayMinutes - 1) :
     /\ m >= 8 * 60 /\ (m - 8 * 60) % 30 = 0
     /\ m <= 20 * 60 - probe.duration_minutes
     /\ ~\E i \in DOMAIN probe.table :
          /\ Active(probe.table[i])
          /\ probe.table[i].psychiatrist_id = probe.psychiatrist_id
          /\ probe.table[i].appointment_date = probe.appointment_date
          /\ m < probe.table[i].end_time
          /\ probe.table[i].start_time < m + probe.duration_minutes}

\* the slots on record that end by noon
SlotEndsByNoon(t) == ParseTime(t) + probe.duration_minutes <= 12 * 60
MorningSlots == SelectSeq(probe.available_slots, SlotEndsByNoon)

\* the call on record is the one of the example: one active booking of the
\* clinician on the date, 10:00-11:00, and slots of 30 minutes
OneBookingAtTen ==
  /\ probe.call = "availability"
  /\ probe.duration_minutes = 30
  /\ Len(probe.table) = 1
  /\ Active(probe.table[1])
  /\ probe.table[1].psychiatrist_id = probe.psychiatrist_id
  /\ probe.table[1].appointment_date = probe.appointment_date
  /\ probe.table[1].start_time = 10 * 60 /\ probe.table[1].end_time = 11 * 60

\* C19: the slots returned are, in ascending order and without duplicates,
\* exactly the starts 08:00 + k * 30 with start <= 20:00 - duration whose
\* [start, start + duration) overlaps no active appointment of the clinician
\* on the date; with one 10:00-11:00 booking and 30-minute slots the part of
\* the window up to 12:00 gives 08:00, 08:30, 09:00, 09:30, 11:00, 11:30; a
\* duration longer than the window gives the empty list.
C19_SlotsExactlyFree ==
  probe.call = "availability"
  => /\ {ParseTime(probe.available_slots[k]) : k \in DOMAIN probe.available_slots}
          = FreeStarts
     /\ \A j, k \in DOMAIN probe.available_slots :
          j < k => ParseTime(probe.available_slots[j]) < ParseTime(probe.available_slots[k])
     /\ OneBookingAtTen
          => MorningSlots = << <<8, 0>>, <<8, 30>>, <<9, 0>>, <<9, 30>>,
                               <<11, 0>>, <<11, 30>> >>
     /\ probe.duration_minutes > 12 * 60 => probe.available_slots = <<>>

\* the slots of the example were computed: 09:30 and 11:00 are offered, 10:00
\* and 10:30 are not
C19_Witness ==
  /\ OneBookingAtTen
  /\ Len(MorningSlots) = 6
  /\ MorningSlots[4] = <<9, 30>> /\ MorningSlots[5] = <<11, 0>>

\* C20: every slot returned, taken as the candidate [start, start + duration)
\* of a create for the same clinician and date on the same table, finds no
\* row in create's clinician conflict query.
C20_SlotsPassCreateScan ==
  probe.call = "availability"
  => \A k \in DOMAIN probe.available_slots :
       PsychiatristConflictRows(probe.table, probe.psychiatrist_id,
         probe.appointment_date, probe.available_slots[k],
         EndTimeOf(probe.available_slots[k], probe.duration_minutes)) = {}

\* slots were returned around an active booking of the clinician on the date
\* that lies off the half-hour grid
C20_Witness ==
  /\ probe.call = "availability"
  /\ probe.duration_minutes = 45
  /\ Len(probe.available_slots) > 0
  /\ \E i \in DOMAIN probe.table :
       /\ Active(probe.table[i])
       /\ probe.table[i].psychiatrist_id = probe.psychiatrist_id
       /\ probe.table[i].appointment_date = probe.appointment_date
       /\ probe.table[i].start_time = 10 * 60 + 15

\* the starts of the slots on record, in minutes
SlotStarts ==
  {ParseTime(probe.available_slots[k]) : k \in DOMAIN probe.available_slots}

\* start m, with the duration on record, overlaps an active appointment of the
\* clinician on the date
SlotBusy(m) ==
  \E i \in DOMAIN probe.table :
    /\ Active(probe.table[i])
    /\ probe.table[i].psychiatrist_id = probe.psychiatrist_id
    /\ probe.table[i].appointment_date = probe.appointment_date
    /\ m < probe.table[i].end_time
    /\ probe.table[i].start_time < m + probe.duration_minutes

\* start m, with the duration on record, does not fit the window 08:00-20:00
SlotOutsideWindow(m) == m < 8 * 60 \/ m + probe.duration_minutes > 20 * 60

\* the starts of the day on the half-hour grid from 08:00
GridStarts == {m \in 0..(DayMinutes - 1) : m >= 8 * 60 /\ (m - 8 * 60) % 30 = 0}

\* C21 as claimed: every start of the day, to the minute, that is not
\* returned overlaps an active appointment of the clinician on the date or
\* falls outside the working window.
C21_EveryMinuteStart ==
  probe.call = "availability"
  => \A m \in 0..(DayMinutes - 1) :
       m \notin SlotStarts => (SlotBusy(m) \/ SlotOutsideWindow(m))

\* C21 as amended: every start on the half-hour grid from 08:00 that is not
\* returned overlaps an active appointment of the clinician on the date or
\* falls outside the working window.
C21_EveryGridStart ==
  probe.call = "availability"
  => \A m \in GridStarts :
       m \notin SlotStarts => (SlotBusy(m) \/ SlotOutsideWindow(m))

\* on a day without bookings of the clinician, 30-minute slots: the last slot
\* of the window, 19:30, is returned, and 08:15, off the grid, is not
C21_Witness ==
  /\ probe.call = "availability"
  /\ probe.duration_minutes = 30
  /\ ~\E m \in GridStarts : SlotBusy(m)
  /\ 19 * 60 + 30 \in SlotStarts
  /\ 8 * 60 + 15 \notin SlotStarts

\* C22: the conflict check counts exactly the appointments of the scope and
\* date whose status is not cancelled or no_show: a create that passes the
\* booking rules ends with a conflict exactly when such an appointment of its
\* patient or its clinician overlaps it, and the slots returned are exactly
\* the free starts with respect to such appointments of the clinician.
C22_OnlyActiveRowsBlock ==
  /\ (probe.call = "create" /\ probe.kind \notin RuleKinds \cup {"InsufficientLeadTime"})
       => ((probe.kind \in {"PatientConflict", "ClinicianConflict"})
             <=> (ProbePatientBusy \/ ProbeClinicianBusy))
  /\ probe.call = "availability" => SlotStarts = FreeStarts

\* the appointment 10:00-11:00 was marked no_show by a status request, and a
\* create of its clinician for 10:30 was then booked
C22_Witness ==
  /\ probe.call = "create"
  /\ probe.kind = "ok"
  /\ probe.start_time = <<10, 30>>
  /\ probe.psychiatrist_id = "c1"
  /\ probe.table[1].status = "no_show"
  /\ \E w \in Workers : res[w] = [op |-> "status", kind |-> "ok", id |-> 1]

\* the create or reschedule served by handler w ends in this step with an
\* error
BookingFails(w) ==
  /\ pc'[w] = "idle"
  /\ pc[w] # "idle" \/ ops' # ops
  /\ res'[w].op \in {"create", "update"}
  /\ res'[w].kind # "ok"

\* C23: a create or a reschedule that ends with an error leaves the table as
\* it was: no row added, no field of any row changed.
C23_FailureWritesNothing ==
  [][\A w \in Workers : BookingFails(w) => appts' = appts]_vars

\* a reschedule failed at its UPDATE statement, on the range of the exclusion
\* constraint, and the appointment still ends after it starts
C23_Witness ==
  \E w \in Workers :
    /\ res[w].op = "update" /\ res[w].kind = "RangeBoundError"
    /\ res[w].id \in DOMAIN appts
    /\ appts[res[w].id].start_time < appts[res[w].id].end_time

\* C24: a create refused for working hours reaches the caller with the code
\* INVALID_APPOINTMENT_TIME, and one refused for a patient conflict or a
\* clinician conflict with the code APPOINTMENT_CONFLICT, never with the
\* generic CREATE_APPOINTMENT_ERROR.
C24_CodePerKind ==
  probe.call = "create"
  => /\ probe.kind = "OutsideWorkingHours" => probe.code = "INVALID_APPOINTMENT_TIME"
     /\ probe.kind \in {"PatientConflict", "ClinicianConflict"}
          => probe.code = "APPOINTMENT_CONFLICT"

\* handler w is serving a request on an appointment id: a reschedule, a status
\* change or a delete that has passed the checks of its route
ServesOnId(w) ==
  /\ pc[w] # "idle"
  /\ req[w].op \in {"update", "status", "delete"}

\* row i is changed or removed in this step
RowTouched(i) == i \notin DOMAIN appts' \/ appts'[i] # appts[i]

\* C25: a reschedule, status change or delete by a clinician who is not the
\* appointment's own ends at the check of the route (Forbidden): no handler
\* goes on serving such a request, and a row is changed or removed only in a
\* step of a request made by the row's own clinician.
C25_OnlyOwnerWrites ==
  [][/\ \A w \in Workers :
          (ServesOnId(w) /\ req[w].id \in DOMAIN appts)
            => appts[req[w].id].psychiatrist_id = req[w].psychiatrist_id
     /\ \A i \in DOMAIN appts :
          RowTouched(i)
            => \E w \in Workers :
                 /\ ServesOnId(w) /\ pc'[w] = "idle"
                 /\ req[w].id = i
                 /\ req[w].psychiatrist_id = appts[i].psychiatrist_id]_vars

\* a delete by the other clinician was refused and the appointment is still
\* in the table
C25_Witness ==
  \E w \in Workers :
    /\ res[w].op = "delete" /\ res[w].kind = "Forbidden"
    /\ res[w].id \in DOMAIN appts

\* C26: a create for a patient who does not exist or is not active, with a
\* body the schema accepts, ends with PatientNotFound and writes nothing,
\* whatever its date and time and whether or not its interval overlaps a
\* booking.
C26_PatientLookupFirst ==
  (/\ probe.call = "create"
   /\ probe.patient_id \notin ActivePatients
   /\ ~ProbeBadDuration)
  => (probe.kind = "PatientNotFound" /\ appts = probe.table)

\* a create for an inactive patient, on an interval that overlaps an active
\* booking of the clinician, ended with PatientNotFound
C26_Witness ==
  /\ probe.call = "create"
  /\ probe.patient_id \in InactivePatients
  /\ ProbeClinicianBusy
  /\ probe.kind = "PatientNotFound"
  /\ appts = probe.table

\* ------------------------------------------------ requests on a missing id
\* handler w ends, in this step, a reschedule or a status change at its
\* existence check or at its write, while no row has the id of the request
EndsOnMissingId(w) ==
  /\ pc[w] \in {"u_find", "u_write", "s_write"}
  /\ pc'[w] = "idle"
  /\ req[w].id \notin DOMAIN appts

\* handler w serves, in this step, a whole request on an id no row has, with
\* a body the route accepts
RefusedOnMissingId(w) ==
  /\ pc[w] = "idle"
  /\ pc'[w] = "idle"
  /\ res'[w] # res[w]
  /\ res'[w].op \in {"update", "status"}
  /\ res'[w].id \notin DOMAIN appts
  /\ res'[w].kind \notin {"ValidationError", "InvalidStatus"}

\* C27: a reschedule or a status change on an id no appointment has ends with
\* NotFound and leaves the table as it was, at the check of the route as well
\* as when a concurrent delete removed the row after that check.
C27_MissingIdIsNotFound ==
  [][\A w \in Workers :
       (EndsOnMissingId(w) \/ RefusedOnMissingId(w))
         => (res'[w].kind = "NotFound" /\ appts' = appts)]_vars

\* ------------------------------------------------------------ reactivation
\* rows i and j are of the same patient or the same clinician, on the same
\* date, and their intervals overlap
SameScopeOverlap(store, i, j) ==
  /\ i # j
  /\ \/ store[i].patient_id = store[j].patient_id
     \/ store[i].psychiatrist_id = store[j].psychiatrist_id
  /\ store[i].appointment_date = store[j].appointment_date
  /\ Overlaps(store[i], store[j])

\* the row of id i is cancelled or no_show while an active row of its patient
\* or its clinician overlaps it
ReactivationBlocked(store, i) ==
  /\ i \in DOMAIN store
  /\ ~Active(store[i])
  /\ \E j \in DOMAIN store : Active(store[j]) /\ SameScopeOverlap(store, i, j)

\* row i is inactive before this step and active after it
Reactivated(i) ==
  /\ i \in DOMAIN appts
  /\ i \in DOMAIN appts'
  /\ ~Active(appts[i])
  /\ Active(appts'[i])

CreateWouldFit(m) ==
  /\ ~BadDuration(probe.duration_minutes)
  /\ ~OutsideWorkHours(MinutesToTime(m))
  /\ PsychiatristConflictRows(probe.table, probe.psychiatrist_id,
        probe.appointment_date, MinutesToTime(m),
        EndTimeOf(MinutesToTime(m), probe.duration_minutes)) = {}

\* C29: every start on the half-hour grid at which a create of the duration
\* passes the working-hours rule and the clinician conflict query is among
\* the slots getAvailability returns for the same table, date, clinician and
\* duration.
C29_CreateWindowIsSlotWindow ==
  probe.call = "availability"
  => \A m \in GridStarts : CreateWouldFit(m) => m \in SlotStarts

\* ------------------------------------------------- what a status change keeps
\* C30: a status change that succeeds leaves the table as it was except for
\* the status of its appointment, which becomes the requested one; and no step
\* of any operation changes the patient or the clinician of a row that exists
\* before and after it.
C30_StatusChangesStatusOnly ==
  [][/\ \A w \in Workers :
          (StatusEnds(w) /\ res'[w].kind = "ok")
            => /\ DOMAIN appts' = DOMAIN appts
               /\ \A i \in DOMAIN appts \ {req[w].id} : appts'[i] = appts[i]
               /\ appts'[req[w].id].status = req[w].status
               /\ \A f \in {"patient_id", "psychiatrist_id", "appointment_date",
                             "start_time", "end_time", "duration_minutes"} :
                    appts'[req[w].id][f] = appts[req[w].id][f]
     /\ \A i \in DOMAIN appts \cap DOMAIN appts' :
          /\ appts'[i].patient_id = appts[i].patient_id
          /\ appts'[i].psychiatrist_id = appts[i].psychiatrist_id]_vars

\* a status change to completed and a booking or reschedule by the other
\* handler have both succeeded
C30_Witness ==
  \E w, v \in Workers :
    /\ w # v
    /\ res[w].op = "status"
    /\ res[w].kind = "ok"
    /\ res[w].id \in DOMAIN appts
    /\ appts[res[w].id].status = "completed"
    /\ res[v].op \in {"create", "update"}
    /\ res[v].kind = "ok"

====
